---------------------------- MODULE Spec2Model ----------------------------
(***************************************************************************)
(* Risk_Assess: the Tk dashboard (src/TK_risk.py) and the Streamlit         *)
(* dashboard (src/risk_assessment.py).  Both read and write the mapping     *)
(* file risk_config.json, turn the three rating columns of a table into     *)
(* scores, multiply them into a Risk Score and aggregate it per             *)
(* (Initiative, Division) for a chart.                                      *)
(*                                                                         *)
(* Values.  A Python value is a record [k, s, n, m]:                        *)
(*   k = "str"   a string, s its text;                                      *)
(*   k = "int"   a Python int / int64, n its value;                         *)
(*   k = "float" a float with the integral value n (a mean, which need not  *)
(*               be integral, is the fraction n / d of a record of its own);*)
(*   k = "nan"   the float NaN (a missing cell);                            *)
(*   k = "map"   a dict, m the function from keys (values) to values;       *)
(*   k = "arr"   a JSON array (its content is never read).                  *)
(* A text is a sequence of atoms; " " is the whitespace atom, every other   *)
(* atom is a run of non-whitespace-delimited characters ("A", "On Track").  *)
(***************************************************************************)
EXTENDS Integers, Sequences, FiniteSets, TLC

-----------------------------------------------------------------------------
(* Bounds of the model *)

\* rows of an input file
MaxRows == 2
\* rows the user adds or retypes in the mapping editor window
MaxEdits == 2

-----------------------------------------------------------------------------
(* Values *)

Str(t) == [k |-> "str", s |-> t, n |-> 0, m |-> <<>>]
PyInt(i) == [k |-> "int", s |-> <<>>, n |-> i, m |-> <<>>]
PyFloat(i) == [k |-> "float", s |-> <<>>, n |-> i, m |-> <<>>]
NaN == [k |-> "nan", s |-> <<>>, n |-> 0, m |-> <<>>]
Map(f) == [k |-> "map", s |-> <<>>, n |-> 0, m |-> f]
Arr == [k |-> "arr", s |-> <<>>, n |-> 0, m |-> <<>>]

IsNum(v) == v.k \in {"int", "float"}
IsNull(v) == v.k = "nan"

\* the word of a one-atom string
W(a) == Str(<<a>>)

-----------------------------------------------------------------------------
(* Text *)

DigitChars == <<"0", "1", "2", "3", "4", "5", "6", "7", "8", "9">>

RECURSIVE Digits(_)
\* str(n) of a non-negative int, character by character
Digits(i) ==
    IF i < 10 THEN <<DigitChars[i + 1]>>
    ELSE Digits(i \div 10) \o <<DigitChars[(i % 10) + 1]>>

RECURSIVE LStrip(_)
LStrip(t) == IF t # <<>> /\ Head(t) = " " THEN LStrip(Tail(t)) ELSE t

RECURSIVE RStrip(_)
RStrip(t) ==
    IF t # <<>> /\ t[Len(t)] = " " THEN RStrip(SubSeq(t, 1, Len(t) - 1)) ELSE t

\* str.strip()
Strip(t) == RStrip(LStrip(t))

\* str(v) of a cell: strings as they are, 5 -> "5", 5.0 -> "5.0", NaN -> "nan"
PyStr(v) ==
    CASE v.k = "str" -> v.s
      [] v.k = "int" -> Digits(v.n)
      [] v.k = "float" -> Digits(v.n) \o <<".", "0">>
      [] v.k = "nan" -> <<"n", "a", "n">>
      [] OTHER -> <<"{", "}">>

\* Series.astype(str).str.strip() on one cell
AsStrStrip(v) == Str(Strip(PyStr(v)))

\* the atoms in code-point order (space < digits < upper case < lower case)
AtomOrder ==
    <<" ", ".", "0", "1", "2", "3", "4", "5", "6", "7", "8", "9",
      "A", "B", "Critical Focus", "Division", "Enhanced Focus", "High", "Impact",
      "Implementation Period", "Initiative", "On Track", "Risk Score", "Severity",
      "Unknown", "X", "Y", "a", "n", "risk_mapping", "{", "}">>

Rank(a) == CHOOSE i \in 1..Len(AtomOrder) : AtomOrder[i] = a

RECURSIVE TextLess(_, _)
\* Python's < on strings
TextLess(a, b) ==
    IF b = <<>> THEN FALSE
    ELSE IF a = <<>> THEN TRUE
    ELSE IF Head(a) = Head(b) THEN TextLess(Tail(a), Tail(b))
    ELSE Rank(Head(a)) < Rank(Head(b))

IsDigits(t) == t # <<>> /\ \A i \in 1..Len(t) : \E d \in 1..10 : DigitChars[d] = t[i]

DigitVal(a) == (CHOOSE d \in 1..10 : DigitChars[d] = a) - 1

RECURSIVE IntVal(_)
IntVal(t) == IF t = <<>> THEN 0 ELSE 10 * IntVal(SubSeq(t, 1, Len(t) - 1)) + DigitVal(t[Len(t)])

\* the text before and after the first "."
BeforeDot(t) == SubSeq(t, 1, (CHOOSE i \in 1..Len(t) : t[i] = "." /\ \A j \in 1..(i - 1) : t[j] # ".") - 1)
AfterDot(t) == SubSeq(t, Len(BeforeDot(t)) + 2, Len(t))

\* whether int(t) succeeds, for a text of digits, "." and other characters
\* without sign
IntOk(t) == IsDigits(Strip(t))

\* whether float(t) succeeds for a text that holds a ".": digits around one
\* ".", one side may be empty
FloatOk(t) ==
    LET u == Strip(t)
    IN /\ (BeforeDot(u) = <<>> \/ IsDigits(BeforeDot(u)))
       /\ (AfterDot(u) = <<>> \/ IsDigits(AfterDot(u)))
       /\ BeforeDot(u) \o AfterDot(u) # <<>>

\* line 82: float(score_text) if '.' in score_text else int(score_text); the
\* floats of the model have no fraction
ScoreOk(t) == IF \E i \in 1..Len(t) : t[i] = "." THEN FloatOk(t) ELSE IntOk(t)

ScoreValue(t) ==
    IF \E i \in 1..Len(t) : t[i] = "." THEN PyFloat(IntVal(BeforeDot(Strip(t))))
    ELSE PyInt(IntVal(Strip(t)))

-----------------------------------------------------------------------------
(* Tables (pandas DataFrames): the set of column names and the rows, each a  *)
(* function from the column names to cells.                                  *)

SEV == "Severity"
PER == "Implementation Period"
IMP == "Impact"
INI == "Initiative"
DIV == "Division"
RISK == "Risk Score"

RatingRoles == <<SEV, PER, IMP>>

Table(cs, rs) == [cols |-> cs, rows |-> rs]

\* df[c]
Column(df, c) == [i \in 1..Len(df.rows) |-> df.rows[i][c]]

\* df[c] = cells (adds the column when it is new)
SetColumn(df, c, cells) ==
    Table(df.cols \cup {c},
          [i \in 1..Len(df.rows) |->
              [d \in df.cols \cup {c} |-> IF d = c THEN cells[i] ELSE df.rows[i][d]]])

\* df.dropna(subset=[c])
DropNa(df, c) == Table(df.cols, SelectSeq(df.rows, LAMBDA r : ~IsNull(r[c])))

\* Series.astype(str).str.strip()
StripCells(cells) == [i \in DOMAIN cells |-> AsStrStrip(cells[i])]

\* the dtype pandas gives Series(dict): int64, float64 or object
DictKind(M) ==
    LET vals == {M[x] : x \in DOMAIN M}
    IN IF vals = {} THEN "float"
       ELSE IF \A v \in vals : v.k = "int" THEN "int"
       ELSE IF \A v \in vals : v.k \in {"int", "float", "nan"} THEN "float"
       ELSE "object"

\* a found value in a column of the given dtype
Cast(v, kind) == IF kind = "float" /\ v.k = "int" THEN PyFloat(v.n) ELSE v

\* Series.map(dict): a label that is no key gives NaN, and NaN makes an int
\* column a float column
MapCells(cells, M) ==
    LET miss == \E i \in DOMAIN cells : cells[i] \notin DOMAIN M
        kind == IF DictKind(M) = "int" /\ miss THEN "float" ELSE DictKind(M)
    IN [i \in DOMAIN cells |->
           IF cells[i] \in DOMAIN M THEN Cast(M[cells[i]], kind) ELSE NaN]

\* the score of a label that is no key of the mapping
DefaultScore == 1

\* a variant of FillNa: the missing cells filled with 0
FillNaZero(cells) ==
    [i \in DOMAIN cells |-> IF IsNull(cells[i]) THEN PyFloat(0) ELSE cells[i]]

\* Series.fillna(1): 1.0 in a float column, 1 in an object column
FillNa(cells) ==
    LET obj == \E i \in DOMAIN cells : ~(cells[i].k \in {"int", "float", "nan"})
    IN [i \in DOMAIN cells |->
           IF IsNull(cells[i])
           THEN (IF obj THEN PyInt(DefaultScore) ELSE PyFloat(DefaultScore))
           ELSE cells[i]]

RECURSIVE Repeat(_, _)
\* "ab" * n
Repeat(t, i) == IF i <= 0 THEN <<>> ELSE t \o Repeat(t, i - 1)

\* the error of a * b on two cells, "" when there is none (pandas skips the
\* cells where either side is missing)
MulErr(a, b) ==
    IF IsNull(a) \/ IsNull(b) THEN ""
    ELSE IF IsNum(a) /\ IsNum(b) THEN ""
    ELSE IF (a.k = "str" /\ b.k = "int") \/ (a.k = "int" /\ b.k = "str") THEN ""
    ELSE "TypeError"

\* a * b on two cells without error
Mul(a, b) ==
    IF IsNull(a) \/ IsNull(b) THEN NaN
    ELSE IF a.k = "int" /\ b.k = "int" THEN PyInt(a.n * b.n)
    ELSE IF IsNum(a) /\ IsNum(b) THEN PyFloat(a.n * b.n)
    ELSE IF a.k = "str" THEN Str(Repeat(a.s, b.n))
    ELSE Str(Repeat(b.s, a.n))

\* Series * Series: the cells and the error, if any cell raises
MulCells(xs, ys) ==
    [err |-> IF \E i \in DOMAIN xs : MulErr(xs[i], ys[i]) # "" THEN "TypeError" ELSE "",
     cells |-> [i \in DOMAIN xs |->
                   IF MulErr(xs[i], ys[i]) = "" THEN Mul(xs[i], ys[i]) ELSE NaN]]

\* Series.astype(float)
AsFloatErr(cells) ==
    IF \E i \in DOMAIN cells : ~(cells[i].k \in {"int", "float", "nan"})
    THEN "ValueError" ELSE ""

AsFloat(cells) ==
    [i \in DOMAIN cells |-> IF cells[i].k = "int" THEN PyFloat(cells[i].n) ELSE cells[i]]

-----------------------------------------------------------------------------
(* The mapping file risk_config.json and the two loaders.  The file is       *)
(* absent, holds a JSON document, or holds text that does not parse.         *)

Absent == [t |-> "absent", v |-> NaN]
Json(v) == [t |-> "json", v |-> v]
Garbage == [t |-> "garbage", v |-> NaN]

WrapperKey == W("risk_mapping")

default_mapping ==
    Map([x \in {W("Critical Focus"), W("Enhanced Focus"), W("On Track")} |->
            IF x = W("Critical Focus") THEN PyInt(5)
            ELSE IF x = W("Enhanced Focus") THEN PyInt(3)
            ELSE PyInt(1)])

\* a variant of TkLoadRiskMapping: the file is not read
TkLoadDefault(cfg) == default_mapping

\* TK_risk.load_risk_mapping: what it returns for a content of the file
TkLoadRiskMapping(cfg) ==
    IF cfg.t # "json" THEN default_mapping
    ELSE IF cfg.v.k = "map" /\ WrapperKey \in DOMAIN cfg.v.m THEN cfg.v.m[WrapperKey]
    ELSE IF cfg.v.k = "map" THEN cfg.v
    ELSE default_mapping

\* risk_assessment.load_risk_mapping
RaLoadRiskMapping(cfg) == IF cfg.t # "json" THEN Map(<<>>) ELSE cfg.v

\* the key json.dump writes for a dict key: a str as it is, a number as its str()
JsonKey(x) == IF x.k = "str" THEN x ELSE Str(PyStr(x))

RECURSIVE JsonDump(_)
\* json.dump followed by json.load of the text written: dict keys become
\* strings (of two keys with one string, one survives), values are kept
JsonDump(v) ==
    IF v.k # "map" THEN v
    ELSE Map([y \in {JsonKey(x) : x \in DOMAIN v.m} |->
                 JsonDump(v.m[CHOOSE x \in DOMAIN v.m : JsonKey(x) = y])])

-----------------------------------------------------------------------------
(* TK_risk.py: normalizer and scorer.  A result is [err, df]: the error      *)
(* raised or reported ("" for none) and the table as the call leaves it.     *)

Result(e, df) == [err |-> e, df |-> df]

\* one pass of the loop of convert_text_to_numeric over column c
TkConvertColumn(df, c, rm) ==
    IF c \notin df.cols THEN Result("", df)
    ELSE IF rm.k # "map" THEN Result("TypeError", SetColumn(df, c, StripCells(Column(df, c))))
    ELSE Result("", SetColumn(df, c, FillNa(MapCells(StripCells(Column(df, c)), rm.m))))

RECURSIVE TkConvertFrom(_, _, _)
TkConvertFrom(df, j, rm) ==
    IF j > Len(RatingRoles) THEN Result("", df)
    ELSE LET r == TkConvertColumn(df, RatingRoles[j], rm)
         IN IF r.err # "" THEN r ELSE TkConvertFrom(r.df, j + 1, rm)

\* convert_text_to_numeric(df), the mapping file holding cfg
TkConvertTextToNumeric(df, cfg) == TkConvertFrom(df, 1, TkLoadRiskMapping(cfg))

\* df['Severity'] * df['Implementation Period'] * df['Impact']
Product(df, a, b, c) ==
    LET ab == MulCells(Column(df, a), Column(df, b))
        abc == MulCells(ab.cells, Column(df, c))
    IN [err |-> IF ab.err # "" THEN ab.err ELSE abc.err, cells |-> abc.cells]

\* calculate_risk_score(df)
TkCalculateRiskScore(df, cfg) ==
    LET conv == TkConvertTextToNumeric(df, cfg)
        prod == Product(conv.df, SEV, PER, IMP)
    IN IF conv.err # "" THEN conv
       ELSE IF ~({SEV, PER, IMP} \subseteq conv.df.cols) THEN Result("Missing Columns", conv.df)
       ELSE IF prod.err # "" THEN Result(prod.err, conv.df)
       ELSE IF AsFloatErr(prod.cells) # ""
            THEN Result(AsFloatErr(prod.cells), SetColumn(conv.df, RISK, prod.cells))
       ELSE Result("", SetColumn(conv.df, RISK, AsFloat(prod.cells)))

-----------------------------------------------------------------------------
(* Aggregation.  A mean is the fraction num / den in lowest terms; den = 0   *)
(* is the mean of no value (NaN).                                            *)

RECURSIVE Gcd(_, _)
Gcd(a, b) == IF b = 0 THEN a ELSE Gcd(b, a % b)

Frac(a, b) ==
    IF b = 0 THEN [num |-> 0, den |-> 0]
    ELSE [num |-> a \div Gcd(a, b), den |-> b \div Gcd(a, b)]

\* the fill value of the pivot
FillValue == 0

RECURSIVE SumWhere(_, _, _, _, _)
\* the sum of the defined Risk Scores of the rows with the key (a, b), taken
\* in row order
SumWhere(rows, ic, dc, a, b) ==
    IF rows = <<>> THEN 0
    ELSE (IF Head(rows)[ic] = a /\ Head(rows)[dc] = b /\ ~IsNull(Head(rows)[RISK])
          THEN Head(rows)[RISK].n ELSE 0)
         + SumWhere(Tail(rows), ic, dc, a, b)

CountWhere(rows, ic, dc, a, b) ==
    Cardinality({i \in 1..Len(rows) :
                    rows[i][ic] = a /\ rows[i][dc] = b /\ ~IsNull(rows[i][RISK])})

\* a variant of GroupMean: the sum of the group in place of its mean
GroupSum(df, ic, dc, a, b) == Frac(SumWhere(df.rows, ic, dc, a, b), 1)

\* the mean of one group of groupby([ic, dc])["Risk Score"]
GroupMean(df, ic, dc, a, b) ==
    Frac(SumWhere(df.rows, ic, dc, a, b), CountWhere(df.rows, ic, dc, a, b))

\* the keys of groupby([ic, dc]): rows with a missing key are left out
GroupKeys(df, ic, dc) ==
    {<<df.rows[i][ic], df.rows[i][dc]>> :
        i \in {j \in 1..Len(df.rows) : ~IsNull(df.rows[j][ic]) /\ ~IsNull(df.rows[j][dc])}}

RECURSIVE SortedVals(_)
\* sorted(S) of a set of strings
SortedVals(S) ==
    IF S = {} THEN <<>>
    ELSE LET lo == CHOOSE x \in S : \A y \in S \ {x} : TextLess(x.s, y.s)
         IN <<lo>> \o SortedVals(S \ {lo})

\* the keys in the order groupby leaves them: by the first key, then the second
SortedKeys(K) ==
    LET as == SortedVals({key[1] : key \in K})
        bs == SortedVals({key[2] : key \in K})
        all == [j \in 1..(Len(as) * Len(bs)) |->
                   <<as[((j - 1) \div Len(bs)) + 1], bs[((j - 1) % Len(bs)) + 1]>>]
    IN SelectSeq(all, LAMBDA key : key \in K)

\* {v: i for i, v in enumerate(seq)}[v]
AxisIndex(seq, v) == (CHOOSE i \in 1..Len(seq) : seq[i] = v) - 1

\* the factor of the bubble size
SizeFactor == 100

RECURSIVE Distinct(_)
\* the values of a sequence in the order of their first appearance
Distinct(seq) ==
    IF Len(seq) = 0 THEN <<>>
    ELSE LET rest == Distinct(SubSeq(seq, 1, Len(seq) - 1))
         IN IF \E i \in 1..Len(rest) : rest[i] = seq[Len(seq)] THEN rest
            ELSE Append(rest, seq[Len(seq)])

\* a variant of BubblePoints: the axes in the order the names are read, not
\* sorted
BubblePointsAsRead(df) ==
    LET K == GroupKeys(df, INI, DIV)
        keys == SortedKeys(K)
        divisions == Distinct(Column(df, DIV))
        initiatives == Distinct(Column(df, INI))
    IN [j \in 1..Len(keys) |->
           LET mean == GroupMean(df, INI, DIV, keys[j][1], keys[j][2])
           IN [Initiative |-> keys[j][1],
               Division |-> keys[j][2],
               mean |-> mean,
               x |-> AxisIndex(divisions, keys[j][2]),
               y |-> AxisIndex(initiatives, keys[j][1]),
               size |-> Frac(mean.num * SizeFactor, mean.den)]]

\* visualize_risk_bubble, lines 156-165: agg_df with its x, y and sizes, in the
\* order of agg_df's rows, for a table already trimmed and without undefined
\* scores
BubblePoints(df) ==
    LET K == GroupKeys(df, INI, DIV)
        keys == SortedKeys(K)
        divisions == SortedVals({key[2] : key \in K})
        initiatives == SortedVals({key[1] : key \in K})
    IN [j \in 1..Len(keys) |->
           LET mean == GroupMean(df, INI, DIV, keys[j][1], keys[j][2])
           IN [Initiative |-> keys[j][1],
               Division |-> keys[j][2],
               mean |-> mean,
               x |-> AxisIndex(divisions, keys[j][2]),
               y |-> AxisIndex(initiatives, keys[j][1]),
               size |-> Frac(mean.num * SizeFactor, mean.den)]]

\* df.pivot_table(index=ic, columns=dc, values="Risk Score", aggfunc="mean")
\* with the gaps filled with 0: the groups whose mean is undefined are dropped,
\* the rest spans the grid
PivotTable(df, ic, dc) ==
    LET K == {key \in GroupKeys(df, ic, dc) : GroupMean(df, ic, dc, key[1], key[2]).den # 0}
        index == SortedVals({key[1] : key \in K})
        columns == SortedVals({key[2] : key \in K})
    IN [index |-> index,
        columns |-> columns,
        cell |-> [key \in {<<index[a], columns[b]>> : a \in 1..Len(index), b \in 1..Len(columns)} |->
                     IF key \in K THEN GroupMean(df, ic, dc, key[1], key[2])
                     ELSE Frac(FillValue, 1)]]

\* lines 152-154 (and 192-194, 219-221): the two name columns as trimmed
\* strings, written into the table passed in
TrimNames(df) ==
    SetColumn(SetColumn(df, INI, StripCells(Column(df, INI))), DIV, StripCells(Column(df, DIV)))

NoGrid == [index |-> <<>>, columns |-> <<>>, cell |-> <<>>]
NoChart == [kind |-> "none", points |-> <<>>, grid |-> NoGrid]

BUBBLE == "Bubble Chart"
HEATMAP == "Heatmap"
STACKED == "Stacked Bar Chart"
ChartTypes == {BUBBLE, HEATMAP, STACKED}

\* what visualize_risk_bubble / _heatmap / _stacked_bar draw for a table that
\* has the three columns they need
TkChart(kind, df) ==
    LET clean == DropNa(TrimNames(df), RISK)
    IN IF kind = BUBBLE
       THEN [kind |-> kind, points |-> BubblePoints(clean), grid |-> NoGrid]
       ELSE [kind |-> kind, points |-> <<>>, grid |-> PivotTable(clean, INI, DIV)]

-----------------------------------------------------------------------------
(* risk_assessment.py: normalizer, scorer and chart.  mappings binds the five *)
(* roles to column names; ignore is the set of ignored column names.          *)

\* dict.get(key, {}) of the mapping loaded, for a column name
SubMapping(rm, c) == IF W(c) \in DOMAIN rm.m THEN rm.m[W(c)] ELSE Map(<<>>)

\* one pass of the loop of convert_text_to_numeric, for the role
RaConvertColumn(df, role, mappings, ignore, rm) ==
    LET mapped_col == mappings[role]
    IN IF ~(mapped_col \in df.cols /\ mapped_col \notin ignore) THEN Result("", df)
       ELSE IF rm.k # "map" THEN Result("AttributeError", df)
       ELSE IF SubMapping(rm, mapped_col).k # "map" THEN Result("TypeError", df)
       ELSE Result("", SetColumn(df, mapped_col,
                FillNa(MapCells(StripCells(Column(df, mapped_col)), SubMapping(rm, mapped_col).m))))

RECURSIVE RaConvertFrom(_, _, _, _, _)
RaConvertFrom(df, j, mappings, ignore, rm) ==
    IF j > Len(RatingRoles) THEN Result("", df)
    ELSE LET r == RaConvertColumn(df, RatingRoles[j], mappings, ignore, rm)
         IN IF r.err # "" THEN r ELSE RaConvertFrom(r.df, j + 1, mappings, ignore, rm)

\* convert_text_to_numeric(df, mappings, ignore_columns), the file holding cfg
RaConvertTextToNumeric(df, mappings, ignore, cfg) ==
    RaConvertFrom(df, 1, mappings, ignore, RaLoadRiskMapping(cfg))

\* calculate_risk_score(df, mappings, ignore_columns)
RaCalculateRiskScore(df, mappings, ignore, cfg) ==
    LET conv == RaConvertTextToNumeric(df, mappings, ignore, cfg)
        bound == {mappings[SEV], mappings[PER], mappings[IMP]}
        prod == Product(conv.df, mappings[SEV], mappings[PER], mappings[IMP])
    IN IF conv.err # "" THEN conv
       ELSE IF ~(bound \subseteq conv.df.cols) THEN Result("KeyError", conv.df)
       ELSE IF prod.err # "" THEN Result(prod.err, conv.df)
       ELSE Result("", SetColumn(conv.df, RISK, prod.cells))

\* visualize_risk_chart(df, chart_type, mappings): the points of the scatter
\* plot are the rows themselves; the two other charts show the pivot
RaChart(df, kind, mappings) ==
    IF ~({mappings[INI], mappings[DIV], RISK} \subseteq df.cols)
    THEN [err |-> "KeyError", chart |-> NoChart]
    ELSE IF kind = BUBBLE
    THEN [err |-> "",
          chart |-> [kind |-> kind,
                     points |-> [i \in 1..Len(df.rows) |->
                                    [Initiative |-> df.rows[i][mappings[INI]],
                                     Division |-> df.rows[i][mappings[DIV]],
                                     score |-> df.rows[i][RISK]]],
                     grid |-> NoGrid]]
    ELSE IF \E i \in 1..Len(df.rows) : df.rows[i][RISK].k = "str"
    THEN [err |-> "TypeError", chart |-> NoChart]
    ELSE [err |-> "",
          chart |-> [kind |-> kind, points |-> <<>>,
                     grid |-> PivotTable(df, mappings[INI], mappings[DIV])]]

predefined_scores ==
    [x \in {<<"Critical">>, <<"High">>, <<"Medium">>, <<"Low">>, <<"Minimal">>} |->
        CASE x = <<"Critical">> -> 5 [] x = <<"High">> -> 4 [] x = <<"Medium">> -> 3
          [] x = <<"Low">> -> 2 [] x = <<"Minimal">> -> 1]

\* auto_generate_risk_mapping(df)
AutoGenerateRiskMapping(df) ==
    Map([c \in {W(x) : x \in df.cols} |->
            LET col == CHOOSE x \in df.cols : W(x) = c
                unique_values == {df.rows[i][col] : i \in {j \in 1..Len(df.rows) : ~IsNull(df.rows[j][col])}}
            IN Map([val \in unique_values |->
                       IF PyStr(val) \in DOMAIN predefined_scores
                       THEN PyInt(predefined_scores[PyStr(val)])
                       ELSE PyInt(DefaultScore)])])

\* bool(v)
Truthy(v) ==
    CASE v.k = "map" -> DOMAIN v.m # {}
      [] v.k = "str" -> v.s # <<>>
      [] v.k \in {"int", "float"} -> v.n # 0
      [] OTHER -> TRUE

\* customize_risk_mapping(df) up to the button: updated_mapping, with the
\* number inputs left at the scores they show
UpdatedMapping(df, cfg) ==
    LET risk_mapping == IF Truthy(RaLoadRiskMapping(cfg)) THEN RaLoadRiskMapping(cfg)
                        ELSE AutoGenerateRiskMapping(df)
    IN IF risk_mapping.k # "map" THEN [err |-> "AttributeError", mapping |-> Map(<<>>)]
       ELSE IF \E c \in df.cols : SubMapping(risk_mapping, c).k # "map"
       THEN [err |-> "AttributeError", mapping |-> Map(<<>>)]
       ELSE [err |-> "",
             mapping |-> Map([c \in {W(x) : x \in df.cols} |->
                                 SubMapping(risk_mapping, CHOOSE x \in df.cols : W(x) = c)])]

\* what open(filename, 'w') followed by json.dump leaves in the file: the
\* document, the old content when the file cannot be opened, or the text cut
\* short when the write fails after the file was truncated
WriteOutcomes == {"written", "open fails", "write fails"}

Written(cfg, mapping, io) ==
    CASE io = "written" -> Json(JsonDump(mapping))
      [] io = "open fails" -> cfg
      [] io = "write fails" -> Garbage

-----------------------------------------------------------------------------
(* Inputs: the files the user can select *)

AllCols == {SEV, PER, IMP, INI, DIV}

Row(sev, per, imp, ini, div) ==
    [c \in AllCols |->
        CASE c = SEV -> sev [] c = PER -> per [] c = IMP -> imp
          [] c = INI -> ini [] c = DIV -> div]

CF == W("Critical Focus")
EF == W("Enhanced Focus")
OT == W("On Track")

\* the rows of the input files: the two rows of the worked example, a row
\* with blanks around a label and a name and with a label of no mapping, and a
\* row with a missing cell, a numeric cell and a blank before a name
RowSet ==
    { Row(CF, OT, EF, W("A"), W("X")),
      Row(OT, OT, OT, W("A"), W("X")),
      Row(Str(<<" ", "Enhanced Focus">>), W("Unknown"), CF, Str(<<"A", " ">>), W("Y")),
      Row(NaN, PyInt(2), W("High"), W("B"), Str(<<" ", "X">>)) }

\* the column sets of the input files that miss a column: no Severity, no
\* Initiative
ShortColSets == {AllCols \ {SEV}, AllCols \ {INI}}

\* the sequences of one to MaxRows rows, no row twice
RowSeqs ==
    UNION {{rs \in [1..len -> RowSet] : \A i, j \in 1..len : rs[i] = rs[j] => i = j} :
              len \in 1..MaxRows}

\* the rows of the files that miss a column
ShortRows ==
    { Row(CF, OT, EF, W("A"), W("X")),
      Row(NaN, PyInt(2), W("High"), W("B"), Str(<<" ", "X">>)) }

\* the tables of the files: these sequences of rows with all five columns, and
\* one-row tables with a column missing
Files ==
    {Table(AllCols, rs) : rs \in RowSeqs}
    \cup {Table(cs, <<[c \in cs |-> r[c]]>>) : cs \in ShortColSets, r \in ShortRows}

\* what the file dialog and load_data can give: no selection, a file that is
\* neither .csv nor .xlsx, a file the reader fails on, or a table
Selections ==
    {[kind |-> x, df |-> Table({}, <<>>)] : x \in {"cancel", "unsupported", "unreadable"}}
    \cup {[kind |-> "table", df |-> f] : f \in Files}

FlatCustom ==
    Map([x \in {CF, W("Unknown")} |-> IF x = CF THEN PyInt(2) ELSE PyFloat(4)])

PerColumn ==
    Map([x \in {W(SEV), W(PER), W(IMP)} |->
            Map([y \in {CF, EF, OT} |->
                    IF y = CF THEN PyInt(4) ELSE IF y = EF THEN PyInt(3) ELSE PyInt(2)])])

\* the bindings of the five roles to column names: each role to the column of
\* its name, or Impact bound to the Severity column as well
Bindings ==
    { [r \in AllCols |-> r],
      [r \in AllCols |-> IF r = IMP THEN SEV ELSE r] }

\* the sets of ignored columns
IgnoreSets == {{}, {SEV}}

\* contents of risk_config.json: no file, text that is no JSON, the default
\* mapping, another flat mapping, a mapping under the key "risk_mapping", a
\* number under that key, a mapping per column, a JSON array
Configs ==
    { Absent,
      Garbage,
      Json(default_mapping),
      Json(FlatCustom),
      Json(Map([x \in {WrapperKey} |-> default_mapping])),
      Json(Map([x \in {WrapperKey} |-> PyInt(5)])),
      Json(PerColumn),
      Json(Arr) }

\* the contents the dashboards start with
StartConfigs ==
    { Absent,
      Json(FlatCustom),
      Json(Map([x \in {WrapperKey} |-> PyInt(5)])),
      Json(PerColumn) }

\* what the user types into a row of the mapping editor: a label and a score
Typed ==
    { [label |-> <<" ", "risk_mapping">>, score |-> <<"2">>],
      [label |-> <<"Unknown", " ">>, score |-> <<"x">>],
      [label |-> <<>>, score |-> <<"x">>],
      [label |-> <<"Unknown">>, score |-> <<" ", "4", ".", "0">>] }

-----------------------------------------------------------------------------
(* State *)

VARIABLES
    app,          \* which program runs: "tk" (TK_risk.py) or "st" (risk_assessment.py)
    config,       \* the content of risk_config.json
    current_df,   \* TK_risk.current_df; None is the table without columns
    frame,        \* what chart_frame shows: a chart, or NoChart when it is empty
    chart_type,   \* the selection of the chart type menu
    ran,          \* the last handler of the dashboard that ran
    msgs,         \* the titles of the message boxes that handler showed
    loaded,       \* history: the table and the mapping of the load that set current_df
    scored,       \* history: what calculate_risk_score returned to that load
    ra,           \* risk_assessment.py: the widgets and what the last run produced
    editor,       \* the mapping editor window: its rows of entries
    attempt       \* history: the last Save Mapping, the file before it and its outcome

vars ==
    <<app, config, current_df, frame, chart_type, ran, msgs, loaded, scored, ra,
      editor, attempt>>

dashvars == <<current_df, frame, chart_type, loaded, scored>>
edvars == <<editor, attempt>>
tkvars == <<dashvars, ran, msgs, edvars>>

None == Table({}, <<>>)

NoEditor == [open |-> FALSE, opened |-> FALSE, rows |-> <<>>, edits |-> 0]

NoAttempt == [outcome |-> "none", before |-> Absent, mapping |-> Map(<<>>)]

NoRun ==
    [stage |-> "none", err |-> "", df_in |-> None, mappings |-> [r \in AllCols |-> r],
     ignore |-> {},
     chart_type |-> "none", before |-> Absent, saved |-> Map(<<>>), io |-> "none",
     df |-> None, chart |-> NoChart]

Init ==
    /\ app \in {"tk", "st"}
    /\ config \in StartConfigs
    /\ current_df = None
    /\ frame = NoChart
    /\ chart_type = BUBBLE
    /\ msgs = {}
    /\ ran = "main"
    /\ loaded = [df |-> None, mapping |-> default_mapping]
    /\ scored = Result("", None)
    /\ ra = NoRun
    /\ editor = NoEditor
    /\ attempt = NoAttempt

-----------------------------------------------------------------------------
(* TK_risk.py: the handlers of the dashboard *)

\* draw_chart from line 261 on, for a table df: the frame is emptied, then the
\* visualizer of the selected type checks its columns, trims the names in the
\* table it was passed and packs its canvas
Draw(df, type) ==
    IF {INI, DIV, RISK} \subseteq df.cols
    THEN [df |-> TrimNames(df), frame |-> TkChart(type, df), msgs |-> {}]
    ELSE [df |-> df, frame |-> NoChart, msgs |-> {"Missing Data"}]

\* the button Refresh Chart: draw_chart
DrawChart ==
    /\ app = "tk"
    /\ ran' = "draw_chart"
    /\ IF current_df = None
       THEN /\ msgs' = {"No Data"}
            /\ UNCHANGED <<current_df, frame>>
       ELSE LET d == Draw(current_df, chart_type)
            IN /\ current_df' = d.df
               /\ frame' = d.frame
               /\ msgs' = d.msgs
    /\ UNCHANGED <<app, config, chart_type, loaded, scored, ra, edvars>>

\* the button Load Data File: on_load_file with load_data, calculate_risk_score
\* and draw_chart
OnLoadFile(sel) ==
    /\ app = "tk"
    /\ ran' = "on_load_file"
    /\ IF sel.kind # "table"
       THEN /\ msgs' = (CASE sel.kind = "unsupported" -> {"Unsupported File"}
                          [] sel.kind = "unreadable" -> {"File Error"}
                          [] OTHER -> {})
            /\ UNCHANGED <<current_df, frame, loaded, scored>>
       ELSE LET r == TkCalculateRiskScore(sel.df, config)
                shown == IF r.err = "Missing Columns" THEN {"Missing Columns"} ELSE {}
                d == Draw(r.df, chart_type)
            IN IF r.err \notin {"", "Missing Columns"}
               THEN \* the exception ends the handler before the assignment
                    /\ msgs' = {r.err}
                    /\ UNCHANGED <<current_df, frame, loaded, scored>>
               ELSE /\ loaded' = [df |-> sel.df, mapping |-> TkLoadRiskMapping(config)]
                    /\ scored' = r
                    /\ current_df' = d.df
                    /\ frame' = d.frame
                    /\ msgs' = shown \cup d.msgs
    /\ UNCHANGED <<app, config, chart_type, ra, edvars>>

\* the menu of chart types
SetChartType(t) ==
    /\ app = "tk"
    /\ t # chart_type
    /\ chart_type' = t
    /\ UNCHANGED <<app, config, current_df, frame, ran, msgs, loaded, scored, ra, edvars>>

-----------------------------------------------------------------------------
(* TK_risk.py: the mapping editor.  One editor window is followed: it is     *)
(* opened once, and the user adds or retypes at most MaxEdits rows in it.    *)

\* lines 63-64: one row per item of the mapping, the label and str(score); the
\* mappings of the model carry no order, the rows come in the order of the labels
EditorRows(mapping) ==
    LET keys == SortedVals(DOMAIN mapping.m)
    IN [i \in 1..Len(keys) |-> [label |-> PyStr(keys[i]), score |-> PyStr(mapping.m[keys[i]])]]

\* the button Edit Risk Mapping: edit_risk_mapping
EditRiskMapping ==
    /\ app = "tk"
    /\ ~editor.opened
    /\ ran' = "edit_risk_mapping"
    /\ IF TkLoadRiskMapping(config).k # "map"
       THEN \* .items() raises: the window stays without rows and without buttons
            /\ msgs' = {"AttributeError"}
            /\ editor' = [NoEditor EXCEPT !.opened = TRUE]
       ELSE /\ msgs' = {}
            /\ editor' = [open |-> TRUE, opened |-> TRUE,
                          rows |-> EditorRows(TkLoadRiskMapping(config)), edits |-> 0]
    /\ UNCHANGED <<app, config, dashvars, ra, attempt>>

\* the button Add Category: add_empty_row
AddEmptyRow ==
    /\ app = "tk"
    /\ editor.open
    /\ editor.edits < MaxEdits
    /\ editor' = [editor EXCEPT !.rows = Append(@, [label |-> <<>>, score |-> <<>>]),
                                !.edits = @ + 1]
    /\ UNCHANGED <<app, config, dashvars, ran, msgs, ra, attempt>>

\* the user retypes the two entries of row i
TypeRow(i, typed) ==
    /\ app = "tk"
    /\ editor.open
    /\ editor.edits < MaxEdits
    /\ i \in 1..Len(editor.rows)
    /\ editor' = [editor EXCEPT !.rows[i] = typed, !.edits = @ + 1]
    /\ UNCHANGED <<app, config, dashvars, ran, msgs, ra, attempt>>

RECURSIVE NewMapping(_, _)
\* lines 75-86: new_mapping after the rows, on top of the mapping m so far; rows
\* without label are skipped, a later row replaces an earlier one of its label
NewMapping(rows, m) ==
    IF rows = <<>> THEN m
    ELSE LET label_text == Strip(Head(rows).label)
         IN IF label_text = <<>> THEN NewMapping(Tail(rows), m)
            ELSE NewMapping(Tail(rows),
                    [x \in DOMAIN m \cup {Str(label_text)} |->
                        IF x = Str(label_text) THEN ScoreValue(Head(rows).score) ELSE m[x]])

\* line 81-85: some row with a label has a score that is no number
InvalidInput(rows) ==
    \E i \in 1..Len(rows) : Strip(rows[i].label) # <<>> /\ ~ScoreOk(Strip(rows[i].score))

\* the rows before the first one that is refused
ValidPrefix(rows) ==
    IF InvalidInput(rows)
    THEN SubSeq(rows, 1, (CHOOSE i \in 1..Len(rows) :
                             /\ InvalidInput(SubSeq(rows, 1, i))
                             /\ ~InvalidInput(SubSeq(rows, 1, i - 1))) - 1)
    ELSE rows

\* the button Save Mapping: save_mapping
SaveMapping(io) ==
    /\ app = "tk"
    /\ editor.open
    /\ ran' = "save_mapping"
    /\ LET new_mapping == Map(NewMapping(ValidPrefix(editor.rows), <<>>))
       IN IF InvalidInput(editor.rows)
          THEN /\ msgs' = {"Invalid Input"}
               /\ attempt' = [outcome |-> "invalid", before |-> config, mapping |-> new_mapping]
               /\ UNCHANGED <<config, editor>>
          ELSE /\ config' = Written(config, new_mapping, io)
               /\ attempt' = [outcome |-> io, before |-> config, mapping |-> new_mapping]
               /\ msgs' = IF io = "written" THEN {"Mapping Updated"} ELSE {"Error"}
               /\ editor' = IF io = "written" THEN [editor EXCEPT !.open = FALSE] ELSE editor
    /\ UNCHANGED <<app, dashvars, ra>>

-----------------------------------------------------------------------------
(* risk_assessment.py: Streamlit runs main again on every interaction, with  *)
(* the values the widgets hold.  ra keeps the widgets (the file uploaded,    *)
(* the bindings, the ignored columns) and what the last run produced.        *)

\* one run of main with a file uploaded: customize_risk_mapping (with the Save
\* button pressed or not, and what the write does), calculate_risk_score, and
\* visualize_risk_chart when Generate Chart is pressed (kind # "none")
RaMain(file, mappings, ignore, save, io, kind) ==
    LET um == UpdatedMapping(file, config)
        cfg == IF um.err = "" /\ save THEN Written(config, um.mapping, io) ELSE config
        calc == RaCalculateRiskScore(file, mappings, ignore, cfg)
        ch == RaChart(calc.df, kind, mappings)
        run == [NoRun EXCEPT !.df_in = file, !.mappings = mappings, !.ignore = ignore,
                             !.chart_type = kind, !.before = config,
                             !.io = IF save THEN io ELSE "none"]
    IN /\ app = "st"
       /\ config' = cfg
       /\ ra' = IF um.err # ""
                THEN [run EXCEPT !.stage = "customize", !.err = um.err, !.io = "none"]
                ELSE IF save /\ io # "written"
                THEN [run EXCEPT !.stage = "save", !.err = "OSError", !.saved = um.mapping]
                ELSE IF calc.err # ""
                THEN [run EXCEPT !.stage = "score", !.err = calc.err, !.saved = um.mapping,
                                 !.df = calc.df]
                ELSE IF kind = "none"
                THEN [run EXCEPT !.stage = "scored", !.saved = um.mapping, !.df = calc.df]
                ELSE [run EXCEPT !.stage = "chart", !.err = ch.err, !.saved = um.mapping,
                                 !.df = calc.df, !.chart = ch.chart]
       /\ UNCHANGED <<app, tkvars>>

\* the file uploader
RaUpload(file) ==
    /\ file # ra.df_in
    /\ RaMain(file, ra.mappings, ra.ignore, FALSE, "none", "none")

\* the select boxes of Map Your Columns
RaSelectColumns(mappings) ==
    /\ ra.stage # "none"
    /\ mappings # ra.mappings
    /\ RaMain(ra.df_in, mappings, ra.ignore, FALSE, "none", "none")

\* the multiselect of the columns to ignore
RaSelectIgnore(ignore) ==
    /\ ra.stage # "none"
    /\ ignore # ra.ignore
    /\ RaMain(ra.df_in, ra.mappings, ignore, FALSE, "none", "none")

\* the button Generate Chart, with the chart type selected
RaGenerateChart(kind) ==
    /\ ra.stage # "none"
    /\ RaMain(ra.df_in, ra.mappings, ra.ignore, FALSE, "none", kind)

\* the button Save Risk Mapping
RaSaveRiskMapping(io) ==
    /\ ra.stage # "none"
    /\ RaMain(ra.df_in, ra.mappings, ra.ignore, TRUE, io, "none")

Next ==
    \/ \E sel \in Selections : OnLoadFile(sel)
    \/ DrawChart
    \/ \E t \in ChartTypes : SetChartType(t)
    \/ \E file \in Files : RaUpload(file)
    \/ \E mappings \in Bindings : RaSelectColumns(mappings)
    \/ \E ignore \in IgnoreSets : RaSelectIgnore(ignore)
    \/ \E kind \in ChartTypes : RaGenerateChart(kind)

Spec == Init /\ [][Next]_vars

-----------------------------------------------------------------------------
(* The mapping store: the editor of TK_risk.py and the Save Risk Mapping     *)
(* button of risk_assessment.py, from every content of risk_config.json.     *)

InitStore ==
    /\ app \in {"tk", "st"}
    /\ config \in Configs
    /\ current_df = None
    /\ frame = NoChart
    /\ chart_type = BUBBLE
    /\ msgs = {}
    /\ ran = "main"
    /\ loaded = [df |-> None, mapping |-> default_mapping]
    /\ scored = Result("", None)
    /\ ra = NoRun
    /\ editor = NoEditor
    /\ attempt = NoAttempt

NextStore ==
    \/ EditRiskMapping
    \/ AddEmptyRow
    \/ \E i \in DOMAIN editor.rows, typed \in Typed : TypeRow(i, typed)
    \/ \E io \in WriteOutcomes : SaveMapping(io)
    \/ \E file \in {f \in Files : Len(f.rows) = 1} : RaUpload(file)
    \/ \E io \in WriteOutcomes : RaSaveRiskMapping(io)

SpecStore == InitStore /\ [][NextStore]_vars
-----------------------------------------------------------------------------
(* Properties.  The helpers below restate what a chart must hold from the    *)
(* rows alone, without the operators the handlers use.                       *)

\* the rows of df a chart keeps for the pair of trimmed names (a, b)
RowsOfPair(df, ic, dc, a, b) ==
    {i \in 1..Len(df.rows) :
        /\ AsStrStrip(df.rows[i][ic]) = a
        /\ AsStrStrip(df.rows[i][dc]) = b
        /\ ~IsNull(df.rows[i][RISK])}

RECURSIVE SumOver(_, _)
\* the sum of the Risk Scores of the rows S of df
SumOver(df, S) ==
    IF S = {} THEN 0
    ELSE LET i == CHOOSE j \in S : TRUE
         IN df.rows[i][RISK].n + SumOver(df, S \ {i})

\* mean is the arithmetic mean of the Risk Scores of the rows S of df
IsMeanOf(mean, df, S) ==
    /\ S # {}
    /\ mean.den > 0
    /\ mean.num * Cardinality(S) = mean.den * SumOver(df, S)

\* the bijections of 1..n
Perms(n) == {p \in [1..n -> 1..n] : \A i, j \in 1..n : p[i] = p[j] => i = j}

Permuted(df, p) == Table(df.cols, [i \in 1..Len(df.rows) |-> df.rows[p[i]]])

\* the cells of a bubble chart as a set
Cells(points) ==
    {[Initiative |-> points[j].Initiative, Division |-> points[j].Division,
      mean |-> points[j].mean, x |-> points[j].x, y |-> points[j].y] :
        j \in 1..Len(points)}

\* the trimmed names in column c of the rows of df with a Risk Score
NamesOf(df, c) ==
    {AsStrStrip(df.rows[i][c]) : i \in {j \in 1..Len(df.rows) : ~IsNull(df.rows[j][RISK])}}

\* the 0-based position of the name v among the names S in lexicographic order
PositionIn(S, v) == Cardinality({u \in S : TextLess(u.s, v.s)})

ExampleTable ==
    Table(AllCols, <<Row(CF, OT, EF, W("A"), W("X")), Row(OT, OT, OT, W("A"), W("X"))>>)

\* C6: in TK_risk.py the Risk Score of every row of the scored table is the
\* product of its three scores after normalization; the bubble chart has one
\* cell per pair (Initiative, Division) of the rows, holding the arithmetic
\* mean of their Risk Scores; the rows (Critical Focus, On Track, Enhanced
\* Focus) and (On Track, On Track, On Track) of one pair score 15 and 1 under
\* the default mapping and the cell of the pair holds 8.
Inv_C6_ProductAndMean ==
    /\ RISK \in scored.df.cols =>
          \A i \in 1..Len(scored.df.rows) :
              LET r == scored.df.rows[i]
              IN /\ IsNum(r[SEV]) /\ IsNum(r[PER]) /\ IsNum(r[IMP])
                 /\ r[RISK] = PyFloat(r[SEV].n * r[PER].n * r[IMP].n)
    /\ frame.kind = BUBBLE =>
          /\ \A j \in 1..Len(frame.points) :
                IsMeanOf(frame.points[j].mean, scored.df,
                         RowsOfPair(scored.df, INI, DIV,
                                    frame.points[j].Initiative, frame.points[j].Division))
          /\ \A i \in 1..Len(scored.df.rows) :
                ~IsNull(scored.df.rows[i][RISK]) =>
                    Cardinality({j \in 1..Len(frame.points) :
                        /\ frame.points[j].Initiative = AsStrStrip(scored.df.rows[i][INI])
                        /\ frame.points[j].Division = AsStrStrip(scored.df.rows[i][DIV])}) = 1
    /\ (loaded.df = ExampleTable /\ loaded.mapping = default_mapping) =>
          /\ scored.err = ""
          /\ Column(scored.df, RISK) = <<PyFloat(15), PyFloat(1)>>
          /\ frame.kind = BUBBLE =>
                /\ Len(frame.points) = 1
                /\ frame.points[1].mean = [num |-> 8, den |-> 1]

\* the table of the example was loaded under the default mapping and the
\* bubble chart shows its one cell
Wit_C6_Example ==
    /\ loaded.df = ExampleTable
    /\ loaded.mapping = default_mapping
    /\ Column(scored.df, RISK) = <<PyFloat(15), PyFloat(1)>>
    /\ frame.kind = BUBBLE
    /\ Len(frame.points) = 1
    /\ frame.points[1].mean.num = 8

\* C4: the cells of the bubble chart shown (pair, mean, x-index, y-index) are
\* those of every permutation of the rows of the scored table, and the x- and
\* y-index of a cell are the 0-based positions of its Division and Initiative
\* among the distinct trimmed names in lexicographic order.
Inv_C4_OrderIndependent ==
    frame.kind = BUBBLE =>
        /\ \A p \in Perms(Len(scored.df.rows)) :
              Cells(TkChart(BUBBLE, Permuted(scored.df, p)).points) = Cells(frame.points)
        /\ \A j \in 1..Len(frame.points) :
              /\ frame.points[j].x = PositionIn(NamesOf(scored.df, DIV), frame.points[j].Division)
              /\ frame.points[j].y = PositionIn(NamesOf(scored.df, INI), frame.points[j].Initiative)

\* a bubble chart of two rows whose Divisions come in the file in the reverse
\* of the lexicographic order
Wit_C4_ReverseOrder ==
    /\ frame.kind = BUBBLE
    /\ Len(scored.df.rows) = 2
    /\ TextLess(AsStrStrip(scored.df.rows[2][DIV]).s, AsStrStrip(scored.df.rows[1][DIV]).s)
    /\ Len(frame.points) = 2

\* C8: when a load or a refresh reports that the table lacks the columns a
\* stage needs, the chart displayed before stays displayed.
Orig_C8_PriorChartStays ==
    [][(/\ frame # NoChart
        /\ ran' \in {"on_load_file", "draw_chart"}
        /\ msgs' \cap {"Missing Columns", "Missing Data"} # {})
       => frame' = frame]_vars

\* C10: the current working table is the table calculate_risk_score returned
\* to the most recent load that succeeded.
Orig_C10_CurrentIsScored == current_df = scored.df
\* the cell out holds the score v
HoldsScore(out, v) == IsNum(out) /\ IsNum(v) /\ out.n = v.n

\* the cells after are the cells before normalized under the mapping M: the
\* score of the trimmed string form of the cell when it is a key, 1 otherwise
SubstitutionLaw(before, after, M) ==
    \A i \in DOMAIN before :
        IF AsStrStrip(before[i]) \in DOMAIN M.m
        THEN HoldsScore(after[i], M.m[AsStrStrip(before[i])])
        ELSE HoldsScore(after[i], PyInt(DefaultScore))

\* the law for the rating columns of the table TK_risk.py loaded
TkSubstitution ==
    \A c \in {SEV, PER, IMP} \cap loaded.df.cols :
        SubstitutionLaw(Column(loaded.df, c), Column(scored.df, c), loaded.mapping)

\* the law for the columns among cs that risk_assessment.py has bound to a
\* rating role, once its normalizer and scorer have run
RaSubstitution(cs) ==
    ra.stage \in {"scored", "chart"} =>
        \A role \in {SEV, PER, IMP} :
            (ra.mappings[role] \in ra.df_in.cols \cap cs) =>
                SubstitutionLaw(Column(ra.df_in, ra.mappings[role]),
                                Column(ra.df, ra.mappings[role]),
                                SubMapping(RaLoadRiskMapping(config), ra.mappings[role]))

\* the columns bound to one rating role only and not ignored
ConvertedOnce ==
    {c \in ra.df_in.cols :
        /\ c \notin ra.ignore
        /\ Cardinality({role \in {SEV, PER, IMP} : ra.mappings[role] = c}) = 1}

\* C1 as stated: every cell of every rating column present is normalized to
\* the score of its trimmed label, or to 1 when the label is no key.
Orig_C1_DefaultSubstitution == TkSubstitution /\ RaSubstitution(AllCols)

\* C1: every cell of a rating column that is present, and in
\* risk_assessment.py is not in the ignore set and is bound to one rating
\* role only, is normalized to the score the mapping has for its trimmed
\* string form, or to 1 when that is no key of the mapping.
Inv_C1_DefaultSubstitution == TkSubstitution /\ RaSubstitution(ConvertedOnce)

\* risk_assessment.py has scored a table of which one column is bound to two
\* rating roles, and a column that is converted once holds a label of the
\* mapping and a label that is none
Wit_C1_MappedAndUnmapped ==
    /\ ra.stage = "scored"
    /\ \E role \in {SEV, PER, IMP} : ra.mappings[role] \notin ConvertedOnce
    /\ \E c \in ConvertedOnce \cap {SEV, PER, IMP}, i \in 1..Len(ra.df_in.rows) :
          AsStrStrip(ra.df_in.rows[i][c]) \notin DOMAIN SubMapping(RaLoadRiskMapping(config), c).m
    /\ \E c \in ConvertedOnce \cap {SEV, PER, IMP}, i \in 1..Len(ra.df_in.rows) :
          AsStrStrip(ra.df_in.rows[i][c]) \in DOMAIN SubMapping(RaLoadRiskMapping(config), c).m

\* C2: calculate_risk_score does not fail and returns a table with a Risk
\* Score column when the three rating columns are present, whatever the
\* ignore set, and fails for missing columns when one of them is absent.
Orig_C2_ScoreTotal ==
    /\ loaded.df # None =>
          IF {SEV, PER, IMP} \subseteq loaded.df.cols
          THEN scored.err = "" /\ RISK \in scored.df.cols
          ELSE scored.err = "Missing Columns" /\ RISK \notin scored.df.cols
    /\ ra.stage \in {"score", "scored", "chart"} =>
          IF {ra.mappings[SEV], ra.mappings[PER], ra.mappings[IMP]} \subseteq ra.df_in.cols
          THEN ra.stage # "score" /\ RISK \in ra.df.cols
          ELSE ra.stage = "score" /\ ra.err \in {"Missing Columns", "KeyError"}

\* grid holds, for every trimmed name of column ic and every trimmed name of
\* column dc among the rows of df with a Risk Score, the mean of the rows of
\* the pair, or 0 when the pair has no row
GridLaw(grid, df, ic, dc) ==
    \A a \in NamesOf(df, ic), b \in NamesOf(df, dc) :
        /\ <<a, b>> \in DOMAIN grid.cell
        /\ IF RowsOfPair(df, ic, dc, a, b) # {}
           THEN IsMeanOf(grid.cell[<<a, b>>], df, RowsOfPair(df, ic, dc, a, b))
           ELSE grid.cell[<<a, b>>] = [num |-> 0, den |-> 1]

\* the grid TK_risk.py shows is total over the cleaned scored table
TkGridTotal == frame.kind \in {HEATMAP, STACKED} => GridLaw(frame.grid, scored.df, INI, DIV)

\* the grid risk_assessment.py shows is total over the cleaned scored table
RaGridTotal ==
    (ra.stage = "chart" /\ ra.err = "" /\ ra.chart.kind \in {HEATMAP, STACKED}) =>
        GridLaw(ra.chart.grid, ra.df, ra.mappings[INI], ra.mappings[DIV])

\* C3: the grid of a heatmap or stacked bar chart has a cell for every
\* Initiative and every Division of the cleaned input, holding the mean Risk
\* Score of the rows of the pair, or 0 when the pair has no row.
Orig_C3_GridTotal == TkGridTotal /\ RaGridTotal

\* the keys of a mapping per column, and the labels under them, are strings
StringKeys(M) ==
    \A c \in DOMAIN M.m :
        /\ c.k = "str"
        /\ M.m[c].k = "map" => \A x \in DOMAIN M.m[c].m : x.k = "str"

\* risk_assessment.py has written the mapping ra.saved in its last run
RaSaved == ra.io = "written" /\ ra.stage \notin {"none", "customize", "save"}

ParsesAsMapping(cfg) == cfg.t = "json" /\ cfg.v.k = "map"

\* C7: what load_risk_mapping returned to its caller is a mapping, and it is
\* the default mapping when the file is absent, unreadable or no mapping.
Orig_C7_LoadTotal ==
    /\ ran = "edit_risk_mapping" =>
          /\ TkLoadRiskMapping(config).k = "map"
          /\ ~ParsesAsMapping(config) => TkLoadRiskMapping(config) = default_mapping
    /\ ra.stage # "none" =>
          /\ RaLoadRiskMapping(ra.before).k = "map"
          /\ ~ParsesAsMapping(ra.before) => RaLoadRiskMapping(ra.before) = default_mapping

\* C9: after a save that met a score that is no number, or whose write
\* failed, an error was reported and a load returns the mapping it returned
\* before the save.
Orig_C9_FailedSaveKeepsMapping ==
    /\ attempt.outcome \in {"invalid", "open fails", "write fails"} =>
          /\ msgs \cap {"Invalid Input", "Error"} # {}
          /\ TkLoadRiskMapping(config) = TkLoadRiskMapping(attempt.before)
    /\ ra.stage = "save" => RaLoadRiskMapping(config) = RaLoadRiskMapping(ra.before)
=============================================================================
